---------------------------- MODULE Spec2Model ----------------------------
(***************************************************************************)
(* Label-aware convex-hull clustering (src/convex_hull_cluster.py).        *)
(*                                                                         *)
(* The functions of the file are modelled one by one in dimension 2 with  *)
(* integer coordinates.  Each specification below exercises one region of  *)
(* the code from every well-typed state of its inputs within the bounds:   *)
(*   Spec          clustering (487-513) and the summary step of main       *)
(*   SpecPredicate check_inside / check_inside_hull applied to a hull      *)
(*   SpecSelect    one ridge of gift_wrapping (409-442) with the selector  *)
(*   SpecLoop      the seed and the loop head of gift_wrapping (394-408)   *)
(*   SpecPure      SpecSelect on the first ridge, longer datasets          *)
(*   SpecSeed      initialize_hull with qsort_partition (290-333)          *)
(* The regions are entered separately because, composed as written, the    *)
(* code stops at its first raise: qsort_partition reads data[rhs] past the *)
(* filtered list (line 309) on every dataset, and processed.get(edge,      *)
(* d=False) (line 408) is a TypeError on every ridge.                      *)
(*                                                                         *)
(* Numbers: numpy.linalg.slogdet returns (sign, log|det|).  The model      *)
(* keeps the integer |det| in place of its logarithm (log is monotone, so  *)
(* comparisons agree; log|det| = -inf is |det| = 0; log|det| close to 0 is *)
(* |det| = 1 for integer matrices).                                        *)
(***************************************************************************)
EXTENDS Integers, Sequences, FiniteSets, TLC

VARIABLES
    pc,           \* position in the region's code
    dataset,      \* Dataset: sequence of [coordinate, label]
    label,        \* label of the hull being grown
    hull,         \* list of faces
    vertices,     \* gift_wrapping: list of hull vertices; clustering: cluster vertices
    used_pivots,  \* keys of the used_pivots dict
    queue,        \* FIFO contents of _queue
    processed,    \* keys of the processed dict
    edge,         \* ridge being processed (None before the first pop)
    last_edge,    \* ridge popped before it
    pivot,        \* value last obtained from the selector / argument pivot
    sel,          \* frame of the pivot_on_edge generator
    clusters,     \* clustering: emitted cluster records
    input,        \* the dataset clustering was called with
    result        \* return value (or raised exception) of the region

vars == <<pc, dataset, label, hull, vertices, used_pivots, queue, processed,
          edge, last_edge, pivot, sel, clusters, input, result>>

None == "None"

\* None where a ridge is expected (edge, last_edge); no ridge is the empty tuple
NoEdge == <<>>

---------------------------------------------------------------------------
(* Bounds *)

\* longest dataset handed to clustering
MaxPoints == 3
\* most faces in a hull handed to the predicates
MaxHull == 2
\* coordinates the points are drawn from
Coordinates == {<<0, 0>>, <<1, 0>>, <<0, 1>>, <<1, 1>>, <<2, 0>>}
\* labels the points are drawn from
Labels == {"A", "B"}

Points == [coordinate : Coordinates, label : Labels]

SeqsUpTo(S, n) == UNION {[1..k -> S] : k \in 0..n}

\* faces of d = 2 vertices over a set of coordinates
Facets(C) == {f \in C \X C : f[1] # f[2]}

---------------------------------------------------------------------------
(* Geometry primitives *)

Abs(x) == IF x < 0 THEN -x ELSE x

Sign(x) == IF x < 0 THEN -1 ELSE IF x > 0 THEN 1 ELSE 0

dimension(ds) == Len(ds[1].coordinate)

\* rows x - reference for x in vertices[1:]
Rows(vs) == [i \in 1..(Len(vs) - 1) |-> [k \in 1..Len(vs[1]) |-> vs[i + 1][k] - vs[1][k]]]

Det2(m) == m[1][1] * m[2][2] - m[1][2] * m[2][1]

\* slogdet of the square matrix of difference rows: <<sign, |det|>>;
\* a non-square matrix is numpy's LinAlgError
signed_volume(vs) ==
    LET m == Rows(vs)
    IN IF Len(m) # 2 \/ Len(vs[1]) # 2 THEN "LinAlgError"
       ELSE <<Sign(Det2(m)), Abs(Det2(m))>>

RECURSIVE SumOver(_, _, _)
SumOver(f(_), lo, hi) == IF lo > hi THEN 0 ELSE f(lo) + SumOver(f, lo + 1, hi)

\* matrix.T * matrix for the (k x 2) matrix of difference rows: 2 x 2
Gram(m) ==
    [i \in 1..2 |-> [j \in 1..2 |->
        LET term(r) == m[r][i] * m[r][j] IN SumOver(term, 1, Len(m))]]

\* slogdet(matrix.T * matrix)[1], as |det|
squared_area(vs) == Abs(Det2(Gram(Rows(vs))))

form_face(e, p) == Append(e, p)

\* face[:-1]
ButLast(s) == SubSeq(s, 1, Len(s) - 1)

\* numpy.isclose([logvolume], [0]) on log|det| of an integer matrix
IsCloseToZero(mag) == mag = 1

\* the default area=None of check_inside
NoArea == 0 - 1

\* Python's "area or squared_area(face)": None and 0.0 (|det| = 1) are falsy
OrArea(area, dflt) == IF area = NoArea \/ area = 1 THEN dflt ELSE area

\* returns the tuple (inside, _face, _area)
check_inside(face, pv, e, area) ==
    LET edge_ == IF e = NoEdge THEN ButLast(face) ELSE e
        area_ == OrArea(area, squared_area(face))
        sv    == signed_volume(form_face(face, pv))
        f2    == form_face(edge_, pv)
        a2    == squared_area(f2)
    IN IF (IsCloseToZero(sv[2]) /\ a2 > area_) \/ sv[1] < 0
       THEN <<FALSE, f2, a2>>
       ELSE <<TRUE, f2, a2>>

\* truth value Python gives a tuple in "if not <tuple>"
TupleTruth(t) == Len(t) # 0

\* for face in hull: if not check_inside(...): return False; return True
check_inside_hull(h, pv) ==
    \A i \in 1..Len(h) : ~ ~ TupleTruth(check_inside(h[i], pv, NoEdge, NoArea))

---------------------------------------------------------------------------
(* SpecPredicate: check_inside_hull(hull, pivot) on every hull of at most  *)
(* MaxHull faces and every pivot.                                          *)

Idle ==
    /\ dataset = <<>> /\ label = None /\ vertices = <<>> /\ used_pivots = {}
    /\ queue = <<>> /\ processed = {} /\ edge = NoEdge /\ last_edge = NoEdge
    /\ sel = None /\ clusters = <<>> /\ input = <<>>

InitPredicate ==
    /\ Idle
    /\ pc = "call"
    /\ hull \in SeqsUpTo(Facets(Coordinates), MaxHull)
    /\ pivot \in Coordinates
    /\ result = None

CallCheckInsideHull ==
    /\ pc = "call"
    /\ result' = check_inside_hull(hull, pivot)
    /\ pc' = "check_inside_hull"
    /\ UNCHANGED <<dataset, label, hull, vertices, used_pivots, queue, processed,
                   edge, last_edge, pivot, sel, clusters, input>>

CallCheckInside ==
    /\ pc = "call"
    /\ hull # <<>>
    /\ result' = check_inside(hull[1], pivot, NoEdge, NoArea)
    /\ pc' = "check_inside"
    /\ UNCHANGED <<dataset, label, hull, vertices, used_pivots, queue, processed,
                   edge, last_edge, pivot, sel, clusters, input>>

NextPredicate == CallCheckInsideHull \/ CallCheckInside

SpecPredicate == InitPredicate /\ [][NextPredicate]_vars

\* C8: check_inside_hull(hull, pivot) is true iff the inside component of
\* check_inside(face, pivot) is true for every face of hull
C8_HullPredicateIsConjunction ==
    pc = "check_inside_hull" =>
        (result <=> \A i \in 1..Len(hull) : check_inside(hull[i], pivot, NoEdge, NoArea)[1])

---------------------------------------------------------------------------
(* Spec: clustering(dataset), lines 487-513, followed by the summary step  *)
(* of main, lines 558-561.  gift_wrapping is taken by its return value     *)
(* {"faces": hull, "vertices": used_pivots} (lines 444-446).               *)

Datasets == SeqsUpTo(Points, MaxPoints)

CoordsOf(ds) == {ds[i].coordinate : i \in 1..Len(ds)}

\* Python's tuple order
TupleLess(a, b) == a[1] < b[1] \/ (a[1] = b[1] /\ a[2] < b[2])

\* what initialize_hull is documented to return: the label of the first point
\* and the dimension - 1 smallest coordinates among the points of that label
SeedLabel(ds) == ds[1].label

SeedEdge(ds) ==
    LET same == {ds[i].coordinate : i \in {j \in 1..Len(ds) : ds[j].label = SeedLabel(ds)}}
        least == CHOOSE c \in same : \A o \in same : ~ TupleLess(o, c)
    IN <<least>>

\* used_pivots starts as the coordinates of the seed (line 403) and only grows
\* by coordinates of dataset points (line 439); the first face of hull starts
\* with the seed (line 401) and ends with a pivot taken from the dataset
GiftWrappingReturns(ds) ==
    {[faces |-> <<form_face(SeedEdge(ds), p)>>, vertices |-> U] :
        U \in {V \in SUBSET CoordsOf(ds) : \A i \in 1..Len(SeedEdge(ds)) : SeedEdge(ds)[i] \in V},
        p \in CoordsOf(ds)}

\* volume += numpy.e ** logvolume, over the faces, from origin hull[0][0]
calculate_volume(h) ==
    LET origin == h[1][1]
        term(i) == signed_volume(form_face(h[i], origin))[2]
    IN SumOver(term, 1, Len(h))

\* coordinates of the points of ds, in order, that satisfy keep
CoordinatesWhere(ds, keep(_)) ==
    LET kept == SelectSeq(ds, keep) IN [i \in 1..Len(kept) |-> kept[i].coordinate]

\* vertices of lines 497-500
ClusterVertices(ds, used) ==
    LET keep(p) == p.coordinate \in used IN CoordinatesWhere(ds, keep)

\* points of lines 501-504
ClusterPoints(ds, h, used) ==
    LET keep(p) == p.coordinate \notin used /\ check_inside_hull(h, p.coordinate)
    IN CoordinatesWhere(ds, keep)

\* _dataset of lines 501-502
RemainingDataset(ds, used) ==
    LET keep(p) == p.coordinate \notin used IN SelectSeq(ds, keep)

ClusterRecordSizeOfVertices(vs, ps, volume) ==
    [vertices |-> vs, points |-> ps, size |-> Len(vs), volume |-> volume]

\* the record of lines 508-511
ClusterRecord(vs, ps, volume) ==
    [vertices |-> vs, points |-> ps, size |-> Len(vs) + Len(ps), volume |-> volume]

WhileDatasetAlways(ds) == TRUE

\* while dataset:
WhileDataset(ds) == ds # <<>>

Init ==
    /\ input \in Datasets
    /\ dataset = input
    /\ pc = "while"
    /\ clusters = <<>>
    /\ hull = <<>> /\ used_pivots = {} /\ vertices = <<>>
    /\ label = None /\ queue = <<>> /\ processed = {} /\ edge = NoEdge
    /\ last_edge = NoEdge /\ pivot = None /\ sel = None /\ result = None

\* line 490: cluster = gift_wrapping(dataset)
GiftWrapping ==
    /\ pc = "while"
    /\ WhileDataset(dataset)
    /\ IF dataset = <<>>
       THEN /\ pc' = "raised"          \* data[0] of line 295
            /\ result' = "IndexError"
            /\ UNCHANGED <<hull, used_pivots>>
       ELSE /\ \E c \in GiftWrappingReturns(dataset) :
                 /\ hull' = c.faces
                 /\ used_pivots' = c.vertices
            /\ pc' = "partition"
            /\ UNCHANGED result
    /\ UNCHANGED <<dataset, label, vertices, queue, processed, edge, last_edge,
                   pivot, sel, clusters, input>>

\* lines 492-511
Partition ==
    /\ pc = "partition"
    /\ vertices' = ClusterVertices(dataset, used_pivots)
    /\ clusters' = Append(clusters,
            ClusterRecord(vertices', ClusterPoints(dataset, hull, used_pivots),
                          calculate_volume(hull)))
    /\ dataset' = RemainingDataset(dataset, used_pivots)
    /\ pc' = "while"
    /\ UNCHANGED <<label, hull, used_pivots, queue, processed, edge, last_edge,
                   pivot, sel, input, result>>

\* line 513: return clusters
Return ==
    /\ pc = "while"
    /\ ~ WhileDataset(dataset)
    /\ result' = clusters
    /\ pc' = "returned"
    /\ UNCHANGED <<dataset, label, hull, vertices, used_pivots, queue, processed,
                   edge, last_edge, pivot, sel, clusters, input>>

\* return clusters[0]['size'], an IndexError on the empty list
size_versus_number_of_clusters(cs) == IF cs = <<>> THEN "IndexError" ELSE cs[1].size

\* return clusters[0]['volume']
volume_versus_size(cs) == IF cs = <<>> THEN "IndexError" ELSE cs[1].volume

\* lines 558-561 of main
Features(cs) ==
    IF cs = <<>> THEN size_versus_number_of_clusters(cs)
    ELSE [NumberOfClusters |-> Len(cs),
          SizeVersusNumberOfClusters |-> size_versus_number_of_clusters(cs),
          VolumeVersusSize |-> volume_versus_size(cs)]

Summary ==
    /\ pc = "returned"
    /\ result' = Features(clusters)
    /\ pc' = IF clusters = <<>> THEN "summary_raised" ELSE "summary"
    /\ UNCHANGED <<dataset, label, hull, vertices, used_pivots, queue, processed,
                   edge, last_edge, pivot, sel, clusters, input>>

Next == GiftWrapping \/ Partition \/ Return \/ Summary

Spec == Init /\ [][Next]_vars

---------------------------------------------------------------------------
(* SpecSelect: gift_wrapping handling one popped, unprocessed ridge, lines  *)
(* 409-442, with the pivot_on_edge generator it drives.  The driver state   *)
(* at line 409 is the one lines 394-442 build from a seed face of d         *)
(* vertices: either the seed alone with its first ridge popped, or the     *)
(* seed plus a face accepted on the first ridge with the second popped.     *)

\* longest dataset scanned by the selector
MaxScan == 3

\* the ridges queuing_face puts, in order: face without its i-th vertex
SubFaces(face) ==
    [i \in 1..Len(face) |->
        [j \in 1..(Len(face) - 1) |-> IF j < i THEN face[j] ELSE face[j + 1]]]

\* sub_face built with i == j in place of i != j
QueuingFaceKeepsIth(face, q) == q \o [i \in 1..Len(face) |-> <<face[i]>>]

queuing_face(face, q) == q \o SubFaces(face)

CheckHomogeneityAlways(ds, h, lab, used) == TRUE

\* lines 366-374
check_homogeneity(ds, h, lab, used) ==
    \A i \in 1..Len(ds) :
        \/ ds[i].coordinate \in used
        \/ ds[i].label = lab
        \/ ~ check_inside_hull(h, ds[i].coordinate)

\* index after "while index < length and <cond>: index += 1", from start
\* (1-based; Len(ds) + 1 is Python's index == length)
SkipWhile(ds, start, cond(_)) ==
    IF \E i \in start..Len(ds) : ~ cond(ds[i])
    THEN CHOOSE i \in start..Len(ds) :
            /\ ~ cond(ds[i])
            /\ \A j \in start..(i - 1) : cond(ds[j])
    ELSE Len(ds) + 1

\* lines 203-206: first point carrying lab
HomoIndex(ds, lab) == LET other(p) == p.label # lab IN SkipWhile(ds, 1, other)

\* lines 213-214: first point after it carrying another label
OppIndex(ds, lab) ==
    LET same(p) == p.label = lab IN SkipWhile(ds, HomoIndex(ds, lab), same)

\* a candidate record {'pivot', 'face', 'area'}
Candidate(e, c) ==
    [pivot |-> c, face |-> form_face(e, c), area |-> squared_area(form_face(e, c))]

\* lines 229-233: does dataset[i] get yielded against the incumbent homo
Updated(ds, e, lab, homo, i) ==
    LET inside == check_inside(homo.face, ds[i].coordinate, e, homo.area)[1]
    IN IF ds[i].label = lab THEN ~ inside ELSE inside

\* the yield of line 236 (and 222): [pivot, label, None]
Yielded(c, lab) == <<c, lab, None>>

\* the generator runs from point number from to its next yield
SelectorAdvance(frame, from) ==
    LET hits == {i \in from..Len(dataset) : Updated(dataset, edge, label, frame.homo, i)}
    IN IF hits = {}
       THEN /\ sel' = [frame EXCEPT !.at = Len(dataset) + 1, !.state = "done"]
            /\ pivot' = <<frame.homo.pivot, frame.found>>
            /\ pc' = "selected"
       ELSE LET i == CHOOSE k \in hits : \A o \in hits : k <= o
            IN /\ sel' = [frame EXCEPT !.at = i, !.state = "yield"]
               /\ pivot' = Yielded(dataset[i].coordinate, label)
               /\ pc' = "candidate"

\* seed face of d same-label coordinates, hull and queue as lines 395-404 set them
SeedFaces(ds) ==
    Facets({ds[i].coordinate : i \in {j \in 1..Len(ds) : ds[j].label = SeedLabel(ds)}})

\* the driver with the first ridge of the seed popped (lines 395-407)
DriverAtFirstRidge(f0) ==
    /\ hull = <<f0>>
    /\ vertices = f0
    /\ edge = SubFaces(f0)[1]
    /\ last_edge = NoEdge
    /\ queue = Tail(SubFaces(f0))
    /\ processed = {}

\* the driver after a face was accepted on the first ridge, second ridge popped
DriverAtSecondRidge(f0) ==
    \E p \in CoordsOf(dataset) :
        LET f1 == form_face(SubFaces(f0)[1], p)
        IN /\ check_homogeneity(dataset, <<f0, f1>>, SeedLabel(dataset),
                                {f0[i] : i \in 1..Len(f0)})
           /\ hull = <<f0, f1>>
           /\ vertices = Append(f0, p)
           /\ edge = SubFaces(f0)[2]
           /\ last_edge = SubFaces(f0)[1]
           /\ queue = SubFaces(f1)
           /\ processed = {SubFaces(f0)[1]}

DriverLocals ==
    /\ label = SeedLabel(dataset)
    /\ used_pivots = {vertices[i] : i \in 1..Len(vertices)}
    /\ pc = "pivot_on_edge"
    /\ pivot = None /\ sel = None /\ result = None
    /\ clusters = <<>> /\ input = <<>>

DriverAtRidge ==
    /\ \E f0 \in SeedFaces(dataset) : DriverAtFirstRidge(f0) \/ DriverAtSecondRidge(f0)
    /\ DriverLocals

InitSelect ==
    /\ dataset \in SeqsUpTo(Points, MaxScan) \ {<<>>}
    /\ DriverAtRidge

\* lines 409-410 with 203-222: create the generator and run it to its first yield
SelectorStart ==
    /\ pc = "pivot_on_edge"
    /\ IF HomoIndex(dataset, label) > Len(dataset) \/ OppIndex(dataset, label) > Len(dataset)
       THEN /\ pc' = "raised"            \* dataset[index] with index == length
            /\ result' = "IndexError"
            /\ UNCHANGED <<sel, pivot>>
       ELSE LET homo == Candidate(edge, dataset[HomoIndex(dataset, label)].coordinate)
                opp  == Candidate(edge, dataset[OppIndex(dataset, label)].coordinate)
            IN /\ sel' = [state |-> "yield", at |-> 0, homo |-> homo, opp |-> opp,
                          found |-> FALSE]
               /\ pivot' = Yielded(homo.pivot, label)
               /\ pc' = "candidate"
               /\ UNCHANGED result
    /\ UNCHANGED <<dataset, label, hull, vertices, used_pivots, queue, processed,
                   edge, last_edge, clusters, input>>

\* lines 414-428: the verdict the driver computes for the yielded candidate
Verdict(ds, h, lab, used, e, cand) ==
    IF lab = cand[2]
    THEN IF check_homogeneity(ds, Append(h, form_face(e, cand[1])), lab, used)
         THEN "homogeneous" ELSE "hetrogeneous"
    ELSE IF check_inside_hull(h, cand[1])
         THEN "opposite inside" ELSE "opposite outside"

DriverVerdict ==
    /\ pc = "candidate"
    /\ result' = Verdict(dataset, hull, label, used_pivots, edge, pivot)
    /\ pc' = "send"
    /\ UNCHANGED <<dataset, label, hull, vertices, used_pivots, queue, processed,
                   edge, last_edge, pivot, sel, clusters, input>>

\* find_pivot.send(check): lines 223-224 / 237-243, then the scan to the next yield
SelectorSend ==
    /\ pc = "send"
    /\ LET current == Candidate(edge, pivot[1])
           frame ==
             IF sel.at = 0
             THEN [sel EXCEPT !.found = (result = "homogeneous") \/ sel.found]
             ELSE IF result = "homogeneous"
                  THEN [sel EXCEPT !.homo = current, !.found = TRUE]
                  ELSE IF result = "opposite inside"
                       THEN [sel EXCEPT !.opp = current]
                       ELSE sel
       IN SelectorAdvance(frame, sel.at + 1)
    /\ UNCHANGED <<dataset, label, hull, vertices, used_pivots, queue, processed,
                   edge, last_edge, clusters, input, result>>

\* lines 430-442
RidgeDone ==
    /\ pc = "selected"
    /\ LET found == pivot[2]
           pv    == IF found THEN pivot[1] ELSE vertices[1]
           e     == IF found THEN edge ELSE last_edge
           h     == IF found THEN hull ELSE ButLast(hull)
           vs    == IF found THEN vertices ELSE ButLast(vertices)
       IN IF e = NoEdge
          THEN /\ pc' = "raised"          \* form_face: list(None)
               /\ result' = "TypeError"
               /\ pivot' = pv /\ edge' = e /\ hull' = h /\ vertices' = vs
               /\ UNCHANGED <<used_pivots, queue, processed>>
          ELSE /\ pivot' = pv /\ edge' = e
               /\ vertices' = Append(vs, pv)
               /\ used_pivots' = used_pivots \cup {pv}
               /\ hull' = Append(h, form_face(e, pv))
               /\ queue' = queuing_face(form_face(e, pv), queue)
               /\ processed' = processed \cup {e}
               /\ pc' = "ridge_done"
               /\ result' = found
    /\ UNCHANGED <<dataset, label, last_edge, sel, clusters, input>>

NextSelect == SelectorStart \/ DriverVerdict \/ SelectorSend \/ RidgeDone

SpecSelect == InitSelect /\ [][NextSelect]_vars

---------------------------------------------------------------------------
(* SpecLoop: the seed and the loop head of gift_wrapping, lines 394-408:   *)
(* entered at line 395 with the (label, face) of initialize_hull, and at   *)
(* the loop test of line 405 after k ridges of the seed have been popped.  *)

\* longest dataset the hull is seeded from
MaxSeedPoints == 2

\* bool(_queue.not_empty): the attribute is the queue's threading.Condition,
\* an object, which is true whatever the queue holds
QueueNotEmpty(q) == TRUE

\* the face initialize_hull hands over: the d - 1 coordinates it is documented
\* to return, or a face of d coordinates of the seed label
SeedsOf(ds) == {SeedEdge(ds)} \cup SeedFaces(ds)

InitLoop ==
    /\ dataset \in SeqsUpTo(Points, MaxSeedPoints) \ {<<>>}
    /\ label = SeedLabel(dataset)
    /\ \E face \in SeedsOf(dataset) :
          \/ /\ pc = "seed"
             /\ pivot = face           \* the local face of line 394
             /\ hull = <<>> /\ vertices = <<>> /\ used_pivots = {}
             /\ queue = <<>> /\ edge = NoEdge /\ last_edge = NoEdge
          \/ \E k \in 0..Len(face) :
                /\ pc = "while"
                /\ pivot = face
                /\ hull = <<face>> /\ vertices = face
                /\ used_pivots = {face[i] : i \in 1..Len(face)}
                /\ queue = SubSeq(SubFaces(face), k + 1, Len(face))
                /\ edge = IF k = 0 THEN NoEdge ELSE SubFaces(face)[k]
                /\ last_edge = IF k < 2 THEN NoEdge ELSE SubFaces(face)[k - 1]
    /\ processed = {}
    /\ sel = None /\ result = None /\ clusters = <<>> /\ input = <<>>

\* lines 395-404
SeedHull ==
    /\ pc = "seed"
    /\ queue' = queuing_face(pivot, <<>>)
    /\ processed' = {}
    /\ hull' = <<pivot>>
    /\ vertices' = pivot
    /\ used_pivots' = {pivot[i] : i \in 1..Len(pivot)}
    /\ edge' = NoEdge
    /\ pc' = "while"
    /\ UNCHANGED <<dataset, label, last_edge, pivot, sel, clusters, input, result>>

\* line 405, and the return of lines 444-446 when the test fails
LoopTest ==
    /\ pc = "while"
    /\ IF QueueNotEmpty(queue)
       THEN pc' = "get" /\ UNCHANGED result
       ELSE pc' = "returned" /\ result' = [faces |-> hull, vertices |-> used_pivots]
    /\ UNCHANGED <<dataset, label, hull, vertices, used_pivots, queue, processed,
                   edge, last_edge, pivot, sel, clusters, input>>

\* lines 406-407; Queue.get() on an empty queue waits for a put that no one makes
QueueGet ==
    /\ pc = "get"
    /\ last_edge' = edge
    /\ IF queue = <<>>
       THEN pc' = "blocked" /\ UNCHANGED <<edge, queue>>
       ELSE edge' = Head(queue) /\ queue' = Tail(queue) /\ pc' = "lookup"
    /\ UNCHANGED <<dataset, label, hull, vertices, used_pivots, processed,
                   pivot, sel, clusters, input, result>>

\* line 408: dict.get takes no keyword arguments
ProcessedLookup ==
    /\ pc = "lookup"
    /\ pc' = "raised"
    /\ result' = "TypeError"
    /\ UNCHANGED <<dataset, label, hull, vertices, used_pivots, queue, processed,
                   edge, last_edge, pivot, sel, clusters, input>>

NextLoop == SeedHull \/ LoopTest \/ QueueGet \/ ProcessedLookup

SpecLoop == InitLoop /\ [][NextLoop]_vars

---------------------------------------------------------------------------
(* SpecSeed: initialize_hull(dataset), lines 331-333, with qsort_partition,  *)
(* lines 290-318, on every non-empty dataset of at most MaxSeedPoints.       *)

\* lines 294-299: coordinates of the points of data[lhs:rhs] that carry the
\* label of the first point; rhs is len(data) - 1, so the last point is left out
FilteredData(data) ==
    LET kept == SelectSeq(SubSeq(data, 1, Len(data) - 1),
                          LAMBDA e : e.label = data[1].label)
    IN [i \in 1..Len(kept) |-> kept[i].coordinate]

\* the first pass of the loop of lines 303-316: data[rhs] (line 309) is read
\* at index len(data) - 1 of the filtered list; were it in range, line 315
\* indexes the list by the pivot coordinate, a tuple
qsort_partition(data, target) ==
    LET rhs   == Len(data) - 1                 \* 0-based
        _data == FilteredData(data)
    IN IF rhs >= Len(_data) THEN "IndexError" ELSE "TypeError"

\* lines 331-333
initialize_hull(ds) == qsort_partition(ds, dimension(ds) - 1)

InitSeed ==
    /\ label = None /\ vertices = <<>> /\ used_pivots = {}
    /\ queue = <<>> /\ processed = {} /\ edge = NoEdge /\ last_edge = NoEdge
    /\ sel = None /\ clusters = <<>>
    /\ hull = <<>> /\ pivot = None /\ result = None
    /\ input \in SeqsUpTo(Points, MaxSeedPoints) \ {<<>>}
    /\ dataset = input
    /\ pc = "initialize_hull"

\* line 394: label, face = initialize_hull(dataset)
InitializeHull ==
    /\ pc = "initialize_hull"
    /\ result' = initialize_hull(dataset)
    /\ pc' = IF result' \in {"IndexError", "TypeError"} THEN "raised" ELSE "seed"
    /\ UNCHANGED <<dataset, label, hull, vertices, used_pivots, queue, processed,
                   edge, last_edge, pivot, sel, clusters, input>>

NextSeed == InitializeHull

SpecSeed == InitSeed /\ [][NextSeed]_vars

---------------------------------------------------------------------------
(* Claims about clustering and the summary step *)

\* number of occurrences of c in the sequence s
Count(c, s) == Cardinality({i \in 1..Len(s) : s[i] = c})

\* occurrences of c in the vertices and points of all emitted clusters
Emitted(c) ==
    LET term(i) == Count(c, clusters[i].vertices) + Count(c, clusters[i].points)
    IN SumOver(term, 1, Len(clusters))

InputCoordinates == [i \in 1..Len(input) |-> input[i].coordinate]

C5_EmptyDataset ==
    input = <<>> =>
        /\ pc \in {"while", "returned", "summary_raised"}
        /\ hull = <<>> /\ used_pivots = {} /\ clusters = <<>>
        /\ pc = "returned" => result = <<>>

C5_Witness == input = <<>> /\ pc = "returned" /\ result = <<>>

\* C6: with an empty cluster sequence the summary step completes and reports
\* zero clusters
C6_EmptySummary ==
    (clusters = <<>> /\ pc \in {"summary", "summary_raised"}) =>
        (pc = "summary" /\ result.NumberOfClusters = 0)

\* C7: every emitted cluster record has size = len(vertices) + len(points)
C7_SizeLaw ==
    \A i \in 1..Len(clusters) :
        clusters[i].size = Len(clusters[i].vertices) + Len(clusters[i].points)

C7_Witness ==
    \E i \in 1..Len(clusters) :
        /\ Len(clusters[i].vertices) > 0
        /\ Len(clusters[i].points) > 0
        /\ clusters[i].size = Len(clusters[i].vertices) + Len(clusters[i].points)

---------------------------------------------------------------------------
(* Claims about the selector and the driver's handling of one ridge *)

\* the dataset point the pending candidate was taken from
SourceIndex == IF sel.at = 0 THEN HomoIndex(dataset, label) ELSE sel.at

\* C9: a yielded candidate carries the label of the point it was taken from,
\* and the verdict sent for it is opposite-inside / opposite-outside (by
\* check_inside_hull) for a foreign-label point and homogeneous / heterogeneous
\* (by the purity of the tentative hull) for a same-label point
C9_VerdictMatchesLabel ==
    /\ pc \in {"candidate", "send"} => pivot[2] = dataset[SourceIndex].label
    /\ pc = "send" =>
          result = IF dataset[SourceIndex].label # label
                   THEN IF check_inside_hull(hull, pivot[1])
                        THEN "opposite inside" ELSE "opposite outside"
                   ELSE IF check_homogeneity(dataset,
                               Append(hull, form_face(edge, pivot[1])), label, used_pivots)
                        THEN "homogeneous" ELSE "hetrogeneous"

\* no point of another label is inside every face of h
Pure(h) ==
    \A i \in 1..Len(dataset) :
        dataset[i].label # label =>
            \E k \in 1..Len(h) : ~ check_inside(h[k], dataset[i].coordinate, NoEdge, NoArea)[1]

\* longest dataset in the purity check
MaxPure == 4

\* datasets of pairwise distinct labelled points; the two labels are
\* interchangeable, so the first point carries the first of them
PureDatasets ==
    {ds \in SeqsUpTo(Points, MaxPure) \ {<<>>} :
        /\ ds[1].label = "A"
        /\ \A i \in 1..Len(ds) : \A j \in 1..Len(ds) : i # j => ds[i] # ds[j]}

InitPure ==
    /\ dataset \in PureDatasets
    /\ \E f0 \in SeedFaces(dataset) : DriverAtFirstRidge(f0)
    /\ DriverLocals

SpecPure == InitPure /\ [][NextSelect]_vars

StrictlyInside(h, c) ==
    \A k \in 1..Len(h) :
        /\ check_inside(h[k], c, NoEdge, NoArea)[1]
        /\ signed_volume(form_face(h[k], c))[1] > 0

C4_SingleLabelSelects ==
    (\A i \in 1..Len(dataset) : dataset[i].label = label) =>
        ~ (pc = "raised" /\ result = "IndexError")

---------------------------------------------------------------------------
(* Claims about the driver loop *)

---------------------------------------------------------------------------
(* Claims about seed selection *)

\* C13: on a non-empty dataset seed selection returns the label of the first
\* point and the d - 1 smallest coordinates among all points of that label
C13_SeedSelection ==
    pc # "initialize_hull" =>
        /\ pc = "seed"
        /\ result = <<SeedLabel(dataset), SeedEdge(dataset)>>

---------------------------------------------------------------------------
(* Claims about one selector run *)

\* the selector starts and reaches its first yield
C14_Starts == pc = "pivot_on_edge" => pc' = "candidate"

\* a verdict moves the scan forward in input order; 'homogeneous' makes the
\* candidate it answers the pivot to return and sets found, any other verdict
\* leaves both as they were
C14_Verdict ==
    pc = "send" =>
        /\ sel'.at > sel.at
        /\ IF result = "homogeneous"
           THEN sel'.found /\ sel'.homo.pivot = pivot[1]
           ELSE sel'.found = sel.found /\ sel'.homo.pivot = sel.homo.pivot

\* the last value is (pivot, found), yielded once the whole dataset was scanned
C14_Last ==
    pc' = "selected" =>
        /\ sel'.at = Len(dataset) + 1
        /\ pivot' = <<sel'.homo.pivot, sel'.found>>

\* C14: a selector run visits the points in input order, runs to the end of the
\* dataset and then yields (pivot, found) once: found iff a 'homogeneous'
\* verdict was received, pivot the candidate that last received one
C14_SelectorRun == [][C14_Starts /\ C14_Verdict /\ C14_Last]_vars

---------------------------------------------------------------------------
(* Claims about the ridge queue *)

\* face with its i-th vertex deleted
WithoutIth(face, i) == SubSeq(face, 1, i - 1) \o SubSeq(face, i + 1, Len(face))

---------------------------------------------------------------------------
(* Claims about the used-vertex set *)

\* coordinates touched by the facets of h
HullCoordinates(h) == UNION {{h[k][i] : i \in 1..Len(h[k])} : k \in 1..Len(h)}

---------------------------------------------------------------------------
(* Claims about squared_area *)

\* C17: for a facet of d = 2 integer vertices the quantity squared_area takes
\* the logarithm of is the squared length of the segment between them, so it
\* is positive when the two vertices differ
C17_SquaredContent ==
    pc = "check_inside" =>
        LET f == result[2]
        IN result[3] = (f[2][1] - f[1][1]) * (f[2][1] - f[1][1])
                     + (f[2][2] - f[1][2]) * (f[2][2] - f[1][2])

=============================================================================
